---- MODULE Spec2Model ----
(***************************************************************************)
(* State-machine model of the YTS movie grabber (src/src/main.rs): the     *)
(* local store (yts_movies.json), the remote paginated catalog, and the    *)
(* sync command fetch_movies, step by step.                                *)
(*                                                                         *)
(* Strings that the program builds character by character are modelled as  *)
(* sequences of tokens (a title is a sequence whose " " tokens are its     *)
(* spaces), so that create_magnet_url's replacement is a real computation. *)
(***************************************************************************)
EXTENDS Integers, Sequences, FiniteSets, TLC

\* ---------------------------------------------------------------- bounds
\* Ids of the movies the remote and the store hold initially: 1..MaxId.
MaxId == 3
\* Page size the remote serves (the program asks for LIMIT = 50 per page).
LIMIT == 2
\* Movies the remote may gain while the program runs.
MaxAdds == 1
\* Invocations of the program in one behaviour.
MaxRuns == 2
\* Longest initial store.
MaxFileLen == 2
\* Pages requested in one pass beyond which the model stops following a scan.
MaxPage == 5

VARIABLES
    \* the environment
    file,             \* content of yts_movies.json when it parses: a sequence of Movie
    fileState,        \* "absent" | "ok" | "corrupt"
    remote,           \* ids the remote lists, newest first
    limit,            \* page size the remote serves
    \* fetch_movies' position and locals
    pc,
    existing_movies,
    latest_id,
    total_count,
    all_new_movies,
    page,
    found_existing,
    new_movie_count,
    temp_page,
    movies,           \* the items of the current page not yet iterated
    pb,               \* the progress bar: [len, pos]
    \* the invocation
    cmd,              \* the subcommand main runs: "fetch" | "check" | "list" | "size"
    out,              \* what the report of the command says
    \* observation of the run (history, read by no action's guard)
    run,              \* number of the current invocation
    preFile,          \* the store when this invocation started
    preState,
    writes,           \* save_movies calls of this invocation
    failed,           \* a load or fetch_page of this invocation returned Err
    reqs,             \* the fetch_page calls of this invocation, in order
    seen,             \* highest id in any page response of this invocation
    lastKind,         \* the current scan's last consumed response: "none"|"items"|"empty"|"absent"
    changed,          \* the remote changed since this invocation started
    prev,             \* the previous invocation, when it is one to compare with (Remembered)
    adds              \* movies the remote gained so far

env == <<file, fileState, remote, limit>>
locals == <<existing_movies, latest_id, total_count, all_new_movies, page,
            found_existing, new_movie_count, temp_page, movies, pb>>
hist == <<run, preFile, preState, writes, failed, reqs, seen, lastKind,
          changed, prev, adds>>
io == <<cmd, out>>
vars == <<env, pc, locals, io, hist>>

\* ---------------------------------------------------------- small helpers
Min(a, b) == IF a <= b THEN a ELSE b
Max(a, b) == IF a >= b THEN a ELSE b

RECURSIVE SetMax(_)
SetMax(S) == IF S = {} THEN 0
             ELSE LET x == CHOOSE y \in S : TRUE IN Max(x, SetMax(S \ {x}))

Ids(s) == [i \in 1..Len(s) |-> s[i].id]
IdSet(s) == {s[i].id : i \in 1..Len(s)}

\* existing_movies.iter().map(|m| m.id).max().unwrap_or(0)
MaxIdOf(s) == SetMax(IdSet(s))

\* ------------------------------------------------------ the remote catalog
\* What the remote reports for movie id: an ApiMovie with its ApiTorrents.
ApiTorrent(id, j) ==
    [quality |-> IF j = 1 THEN "720p" ELSE "1080p",
     torrent_type |-> IF j = 1 THEN "web" ELSE "bluray",
     hash |-> ToString(id * 10 + j),
     size |-> ToString(id * j),
     size_bytes |-> id * j]

ApiTorrents(id) == [j \in 1..(id % 3) |-> ApiTorrent(id, j)]

ApiMovie(id) ==
    [id |-> id,
     title |-> <<"Movie", " ", "No", " ", ToString(id)>>,
     year |-> 2000 + id,
     imdb_code |-> ToString(id),
     torrents |-> ApiTorrents(id)]

\* -------------------------------------------------------- create_magnet_url
TRACKERS == "&tr=udp://open.demonii.com:1337/announce&tr=udp://tracker.openbittorrent.com:80&tr=udp://tracker.coppersurfer.tk:6969&tr=udp://glotorrents.pw:6969/announce&tr=udp://tracker.opentrackr.org:1337/announce&tr=udp://torrent.gresille.org:80/announce&tr=udp://p4p.arenabg.com:1337&tr=udp://tracker.leechers-paradise.org:6969"

\* title.replace(' ', "+")
ReplaceSpaces(title) == [i \in 1..Len(title) |-> IF title[i] = " " THEN "+" ELSE title[i]]

\* Variant: the title embedded as it is, its spaces kept.
create_magnet_url_unencoded(hash, title) ==
    <<"magnet:?xt=urn:btih:", hash, "&dn=">> \o title \o <<TRACKERS>>

\* format!("magnet:?xt=urn:btih:{}&dn={}&tr=...", hash, encoded_title)
create_magnet_url(hash, title) ==
    <<"magnet:?xt=urn:btih:", hash, "&dn=">> \o ReplaceSpaces(title) \o <<TRACKERS>>

\* Variant: the quality label without the type tag.
MakeTorrentPlainQuality(t, title) ==
    [quality |-> <<t.quality>>,
     hash |-> t.hash,
     magnet_url |-> create_magnet_url(t.hash, title),
     size_bytes |-> t.size_bytes,
     size |-> t.size]

\* The Torrent built from an ApiTorrent of the movie titled title.
MakeTorrent(t, title) ==
    [quality |-> <<t.quality, "-", t.torrent_type>>,
     hash |-> t.hash,
     magnet_url |-> create_magnet_url(t.hash, title),
     size_bytes |-> t.size_bytes,
     size |-> t.size]

\* The Movie built from an ApiMovie.
MakeMovie(api_movie) ==
    [id |-> api_movie.id,
     title |-> api_movie.title,
     year |-> api_movie.year,
     imdb_code |-> api_movie.imdb_code,
     torrents |-> [j \in 1..Len(api_movie.torrents) |->
                      MakeTorrent(api_movie.torrents[j], api_movie.title)]]

\* ------------------------------------------------------------- fetch_page
\* The items the remote lists on 1-based page p.
PageIds(p) == SubSeq(remote, (p - 1) * limit + 1, Min(p * limit, Len(remote)))

\* data.movies of the response: Some(items), and for a page out of range
\* either None or Some of an empty list.
MoviesOf(p) ==
    IF PageIds(p) # <<>>
    THEN {[some |-> TRUE, items |-> [i \in 1..Len(PageIds(p)) |-> ApiMovie(PageIds(p)[i])]]}
    ELSE {[some |-> FALSE, items |-> <<>>], [some |-> TRUE, items |-> <<>>]}

\* The results fetch_page(p) can return: Err, or Ok(ApiResponse).
fetch_page(p) ==
    {[ok |-> FALSE, movie_count |-> 0, movies |-> [some |-> FALSE, items |-> <<>>]]}
    \cup {[ok |-> TRUE, movie_count |-> Len(remote), movies |-> m] : m \in MoviesOf(p)}

KindOf(r) == IF ~r.movies.some THEN "absent"
             ELSE IF r.movies.items = <<>> THEN "empty" ELSE "items"

\* What a fetch_page call leaves in the observation of the run.
Observe(phase, p, r) ==
    /\ reqs' = Append(reqs, [phase |-> phase, page |-> p, ok |-> r.ok,
                              ids |-> Ids(r.movies.items)])
    /\ seen' = IF r.ok THEN Max(seen, MaxIdOf(r.movies.items)) ELSE seen
    /\ failed' = (failed \/ ~r.ok)

\* ------------------------------------------------------------------- sort
\* all_new_movies.sort_by(|a, b| b.id.cmp(&a.id)): a stable sort, id descending.
RECURSIVE InsertDesc(_, _)
InsertDesc(m, s) ==
    IF s = <<>> THEN <<m>>
    ELSE IF Head(s).id >= m.id THEN <<Head(s)>> \o InsertDesc(m, Tail(s))
    ELSE <<m>> \o s

RECURSIVE SortFrom(_, _)
SortFrom(s, acc) ==
    IF s = <<>> THEN acc ELSE SortFrom(Tail(s), InsertDesc(Head(s), acc))

\* Variant: the merged sequence left in the order it was concatenated.
sort_unsorted(s) == s

sort_by_id_desc(s) == SortFrom(s, <<>>)

\* --------------------------------------------------------------- the state
RECURSIVE DescSeq(_)
DescSeq(S) == IF S = {} THEN <<>>
              ELSE LET x == SetMax(S) IN <<x>> \o DescSeq(S \ {x})

\* The remotes a run may start against: ids newest (highest) first.
InitRemotes == {DescSeq(S) : S \in SUBSET (1..MaxId)}

\* What the remote reported for movie id when an earlier sync stored it: the
\* title has been changed on the remote since.
EarlierApiMovie(id) ==
    [ApiMovie(id) EXCEPT !.title = <<"Working", " ", "Title", " ", ToString(id)>>]

\* The stores a run may start from: movies saved by an earlier sync, distinct
\* ids, in any order.
InitFiles ==
    {[i \in 1..Len(s) |-> MakeMovie(EarlierApiMovie(s[i]))] :
        s \in {t \in UNION {[1..n -> 1..MaxId] : n \in 0..MaxFileLen} :
                  \A i, j \in 1..Len(t) : i # j => t[i] # t[j]}}

NoPb == [len |-> 0, pos |-> 0]

\* Variant: Step 3 starting one page late.
SecondPage == 1 + 1

\* let mut page = 1: Step 3 starts at the first page.
FirstPage == 1

\* The subcommands of the command line (enum Commands; none given is Fetch).
Commands == {"fetch", "check", "list", "size"}

\* Nothing reported yet. avg is <<>> for "N/A" and <<a>> for the average a.
NoOut == [msg |-> "none", n |-> 0, total |-> 0, with |-> 0, avg |-> <<>>]

InitIo ==
    /\ cmd \in Commands
    /\ out = NoOut

InitLocals ==
    /\ pc = "load"
    /\ existing_movies = <<>>
    /\ latest_id = 0
    /\ total_count = 0
    /\ all_new_movies = <<>>
    /\ page = FirstPage
    /\ found_existing = FALSE
    /\ new_movie_count = 0
    /\ temp_page = 1
    /\ movies = <<>>
    /\ pb = NoPb

InitHist ==
    /\ run = 1
    /\ preFile = file
    /\ preState = fileState
    /\ writes = 0
    /\ failed = FALSE
    /\ reqs = <<>>
    /\ seen = 0
    /\ lastKind = "none"
    /\ changed = FALSE
    /\ prev = [outcome |-> "none", changed |-> FALSE, cmd |-> "none", n |-> 0]
    /\ adds = 0

Init ==
    /\ remote \in InitRemotes
    /\ limit = LIMIT
    /\ \/ fileState = "absent" /\ file = <<>>
       \/ fileState = "corrupt" /\ file = <<>>
       \/ fileState = "ok" /\ file \in InitFiles
    /\ InitLocals
    /\ InitIo
    /\ InitHist

\* ------------------------------------------------------------------- main
\* Variant: the Check arm of the match calling fetch_movies.
DispatchCheckFetches(c) ==
    IF c \in {"fetch", "check"} THEN "fetch_movies"
    ELSE IF c = "list" THEN "list_movies" ELSE "calculate_size"

\* match cli.command: the function main calls for subcommand c.
Dispatch(c) ==
    IF c = "fetch" THEN "fetch_movies"
    ELSE IF c = "check" THEN "check_new_movies"
    ELSE IF c = "list" THEN "list_movies" ELSE "calculate_size"

\* Where the called function goes on after its load_existing_movies()?.
AfterLoad(f) ==
    IF f = "fetch_movies" THEN "probe"
    ELSE IF f = "check_new_movies" THEN "c_probe"
    ELSE IF f = "list_movies" THEN "l_show" ELSE "z_sum"

\* ---------------------------------------------------- load_existing_movies
\* Variant: no exists() test, so that a missing file is a read error.
load_existing_movies_unguarded ==
    IF fileState = "ok" THEN [ok |-> TRUE, movies |-> file]
    ELSE [ok |-> FALSE, movies |-> <<>>]

\* if !Path::new(OUTPUT_FILE).exists() { return Ok(Vec::new()); }
\* serde_json::from_str(&fs::read_to_string(OUTPUT_FILE)?)?
load_existing_movies ==
    IF fileState = "absent" THEN [ok |-> TRUE, movies |-> <<>>]
    ELSE IF fileState = "corrupt" THEN [ok |-> FALSE, movies |-> <<>>]
    ELSE [ok |-> TRUE, movies |-> file]

\* ------------------------------------------------------------ fetch_movies
\* Variant: a boundary that lets the id equal to latest_id through.
IsBoundaryStrict(id, latest) == id < latest

\* The boundary rule of both scans: movie.id <= latest_id.
IsBoundary(id, latest) == id <= latest

\* Variant: an Err taken as the end of the listing, what was fetched is saved.
AbortThenSave ==
    /\ pc' = "save"
    /\ UNCHANGED <<env, locals>>

\* The ? operator on an Err: the error propagates out of fetch_movies and main.
Abort ==
    /\ pc' = "error"
    /\ UNCHANGED <<env, locals>>

\* The first statement of every command: let existing_movies (movies) =
\* load_existing_movies()?; fetch and check go on with let latest_id =
\* ...max().unwrap_or(0), which list and size never read.
LoadExisting ==
    /\ pc = "load"
    /\ IF ~load_existing_movies.ok
       THEN /\ failed' = TRUE
            /\ Abort
       ELSE /\ existing_movies' = load_existing_movies.movies
            /\ latest_id' = MaxIdOf(existing_movies')
            /\ pc' = AfterLoad(Dispatch(cmd))
            /\ failed' = failed
            /\ UNCHANGED <<env, total_count, all_new_movies, page, found_existing,
                           new_movie_count, temp_page, movies, pb>>
    /\ UNCHANGED <<run, preFile, preState, writes, reqs, seen, lastKind, changed, prev, adds>>
    /\ UNCHANGED io

\* let first_response = fetch_page(1)?; let total_count = ...movie_count
Probe ==
    /\ pc = "probe"
    /\ \E r \in fetch_page(1) :
          /\ Observe("probe", 1, r)
          /\ IF ~r.ok
             THEN Abort
             ELSE /\ total_count' = r.movie_count
                  /\ pc' = IF latest_id > 0 THEN "s2fetch" ELSE "pbinit"
                  /\ UNCHANGED <<env, existing_movies, latest_id, all_new_movies, page,
                                 found_existing, new_movie_count, temp_page, movies, pb>>
    /\ UNCHANGED <<run, preFile, preState, writes, lastKind, changed, prev, adds>>
    /\ UNCHANGED io

\* Step 2, the head of the loop: let response = fetch_page(temp_page)?;
\* if let Some(movies) = response.data.movies { for ... } else { break }
Step2Fetch ==
    /\ pc = "s2fetch"
    /\ temp_page <= MaxPage
    /\ \E r \in fetch_page(temp_page) :
          /\ Observe("scan2", temp_page, r)
          /\ IF ~r.ok
             THEN Abort /\ lastKind' = lastKind
             ELSE /\ lastKind' = KindOf(r)
                  /\ movies' = r.movies.items
                  /\ pc' = IF r.movies.some THEN "s2items" ELSE "s2done"
                  /\ UNCHANGED <<env, existing_movies, latest_id, total_count,
                                 all_new_movies, page, found_existing, new_movie_count,
                                 temp_page, pb>>
    /\ UNCHANGED <<run, preFile, preState, writes, changed, prev, adds>>
    /\ UNCHANGED io

\* Step 2, one iteration of: for movie in movies { if movie.id <= latest_id
\* { found_existing = true; break; } new_movie_count += 1; }
Step2Item ==
    /\ pc = "s2items"
    /\ movies # <<>>
    /\ ~found_existing
    /\ IF IsBoundary(Head(movies).id, latest_id)
       THEN /\ found_existing' = TRUE
            /\ UNCHANGED <<new_movie_count, movies>>
       ELSE /\ new_movie_count' = new_movie_count + 1
            /\ movies' = Tail(movies)
            /\ UNCHANGED found_existing
    /\ UNCHANGED <<env, pc, existing_movies, latest_id, total_count, all_new_movies,
                   page, temp_page, pb, hist>>
    /\ UNCHANGED io

\* Step 2, after the for loop: if found_existing { break; } temp_page += 1;
Step2PageEnd ==
    /\ pc = "s2items"
    /\ movies = <<>> \/ found_existing
    /\ IF found_existing
       THEN pc' = "s2done" /\ UNCHANGED temp_page
       ELSE pc' = "s2fetch" /\ temp_page' = temp_page + 1
    /\ movies' = <<>>
    /\ UNCHANGED <<env, existing_movies, latest_id, total_count, all_new_movies,
                   page, found_existing, new_movie_count, pb, hist>>
    /\ UNCHANGED io

\* After the Step 2 loop: if new_movie_count == 0 { let pb = ...; } (a block
\* that binds a local and falls through: it does not return),
\* println!("Found {} new movies to fetch"); found_existing = false;
Step2Finish ==
    /\ pc = "s2done"
    /\ found_existing' = FALSE
    /\ pc' = "pbinit"
    /\ lastKind' = "none"
    /\ UNCHANGED <<env, existing_movies, latest_id, total_count, all_new_movies,
                   page, new_movie_count, temp_page, movies, pb>>
    /\ UNCHANGED <<run, preFile, preState, writes, failed, reqs, seen, changed, prev, adds>>
    /\ UNCHANGED io

\* Variant: the target is the probed total whatever the cursor.
progress_total_probed == total_count

\* let progress_total = if latest_id > 0 { new_movie_count } else { total_count };
progress_total == IF latest_id > 0 THEN new_movie_count ELSE total_count

\* let progress_total = if latest_id > 0 { new_movie_count } else { total_count };
\* let pb = ProgressBar::new(progress_total as u64);
SetupProgress ==
    /\ pc = "pbinit"
    /\ pb' = [len |-> progress_total, pos |-> 0]
    /\ pc' = "s3fetch"
    /\ UNCHANGED <<env, existing_movies, latest_id, total_count, all_new_movies,
                   page, found_existing, new_movie_count, temp_page, movies, hist>>
    /\ UNCHANGED io

\* Step 3, the head of the loop. The source's loop opens with displaced lines
\* in place of its request; the loop's tail (page += 1; } else { break; }) and
\* Step 2's loop give its shape: fetch_page(page)?, Some(movies) iterated,
\* None ending the loop.
Step3Fetch ==
    /\ pc = "s3fetch"
    /\ page <= MaxPage
    /\ \E r \in fetch_page(page) :
          /\ Observe("scan3", page, r)
          /\ IF ~r.ok
             THEN Abort /\ lastKind' = lastKind
             ELSE /\ lastKind' = KindOf(r)
                  /\ movies' = r.movies.items
                  /\ pc' = IF r.movies.some THEN "s3items" ELSE "save"
                  /\ UNCHANGED <<env, existing_movies, latest_id, total_count,
                                 all_new_movies, page, found_existing, new_movie_count,
                                 temp_page, pb>>
    /\ UNCHANGED <<run, preFile, preState, writes, changed, prev, adds>>
    /\ UNCHANGED io

\* Step 3, one iteration of the for loop: if api_movie.id <= latest_id
\* { found_existing = true; break; } ... all_new_movies.push(movie); pb.inc(1);
Step3Item ==
    /\ pc = "s3items"
    /\ movies # <<>>
    /\ ~found_existing
    /\ IF IsBoundary(Head(movies).id, latest_id)
       THEN /\ found_existing' = TRUE
            /\ UNCHANGED <<all_new_movies, pb, movies>>
       ELSE /\ all_new_movies' = Append(all_new_movies, MakeMovie(Head(movies)))
            /\ pb' = [pb EXCEPT !.pos = @ + 1]
            /\ movies' = Tail(movies)
            /\ UNCHANGED found_existing
    /\ UNCHANGED <<env, pc, existing_movies, latest_id, total_count, page,
                   new_movie_count, temp_page, hist>>
    /\ UNCHANGED io

\* Step 3, after the for loop: if found_existing { break; } page += 1;
Step3PageEnd ==
    /\ pc = "s3items"
    /\ movies = <<>> \/ found_existing
    /\ IF found_existing
       THEN pc' = "save" /\ UNCHANGED page
       ELSE pc' = "s3fetch" /\ page' = page + 1
    /\ movies' = <<>>
    /\ UNCHANGED <<env, existing_movies, latest_id, total_count, all_new_movies,
                   found_existing, new_movie_count, temp_page, pb, hist>>
    /\ UNCHANGED io

\* Variant: the stored movies are not carried over.
MergeNewOnly(new, old) == sort_by_id_desc(new)

\* all_new_movies.extend(existing_movies); all_new_movies.sort_by(...)
Merge(new, old) == sort_by_id_desc(new \o old)

\* Step 4: pb.finish; extend; sort; save_movies(&all_new_movies)?; Ok(())
Save ==
    /\ pc = "save"
    /\ all_new_movies' = Merge(all_new_movies, existing_movies)
    /\ file' = all_new_movies'
    /\ fileState' = "ok"
    /\ writes' = writes + 1
    /\ pc' = "done"
    /\ UNCHANGED <<remote, limit, existing_movies, latest_id, total_count, page,
                   found_existing, new_movie_count, temp_page, movies, pb>>
    /\ UNCHANGED <<run, preFile, preState, failed, reqs, seen, lastKind, changed, prev, adds>>
    /\ UNCHANGED io

\* -------------------------------------------------------- check_new_movies
\* Variant: a boundary that lets the id equal to latest_id through.
CheckIsBoundaryStrict(id, latest) == id < latest

\* The boundary rule of the check's scan: movie.id <= latest_id.
CheckIsBoundary(id, latest) == id <= latest

\* let first_response = fetch_page(1)?; let total_count = ...;
\* if latest_id == 0 { "No local database found", "All {} movies are new"; return Ok(()) }
CheckProbe ==
    /\ pc = "c_probe"
    /\ \E r \in fetch_page(1) :
          /\ Observe("cprobe", 1, r)
          /\ IF ~r.ok
             THEN Abort /\ out' = out
             ELSE /\ total_count' = r.movie_count
                  /\ IF latest_id = 0
                     THEN /\ pc' = "done"
                          /\ out' = [NoOut EXCEPT !.msg = "all_new", !.n = r.movie_count]
                     ELSE /\ pc' = "c_fetch"
                          /\ out' = out
                  /\ UNCHANGED <<env, existing_movies, latest_id, all_new_movies, page,
                                 found_existing, new_movie_count, temp_page, movies, pb>>
    /\ UNCHANGED <<cmd, run, preFile, preState, writes, lastKind, changed, prev, adds>>

\* The head of the check's loop (its local page is kept in temp_page):
\* let response = fetch_page(page)?; if let Some(movies) = ... else { break }
CheckFetch ==
    /\ pc = "c_fetch"
    /\ temp_page <= MaxPage
    /\ \E r \in fetch_page(temp_page) :
          /\ Observe("cscan", temp_page, r)
          /\ IF ~r.ok
             THEN Abort /\ lastKind' = lastKind
             ELSE /\ lastKind' = KindOf(r)
                  /\ movies' = r.movies.items
                  /\ pc' = IF r.movies.some THEN "c_items" ELSE "c_report"
                  /\ UNCHANGED <<env, existing_movies, latest_id, total_count,
                                 all_new_movies, page, found_existing, new_movie_count,
                                 temp_page, pb>>
    /\ UNCHANGED <<io, run, preFile, preState, writes, changed, prev, adds>>

\* One iteration of: for movie in movies { if movie.id <= latest_id
\* { found_existing = true; break; } new_movie_count += 1; }
CheckItem ==
    /\ pc = "c_items"
    /\ movies # <<>>
    /\ ~found_existing
    /\ IF CheckIsBoundary(Head(movies).id, latest_id)
       THEN /\ found_existing' = TRUE
            /\ UNCHANGED <<new_movie_count, movies>>
       ELSE /\ new_movie_count' = new_movie_count + 1
            /\ movies' = Tail(movies)
            /\ UNCHANGED found_existing
    /\ UNCHANGED <<env, pc, existing_movies, latest_id, total_count, all_new_movies,
                   page, temp_page, pb, io, hist>>

\* After the for loop: if found_existing { break; } page += 1;
CheckPageEnd ==
    /\ pc = "c_items"
    /\ movies = <<>> \/ found_existing
    /\ IF found_existing
       THEN pc' = "c_report" /\ UNCHANGED temp_page
       ELSE pc' = "c_fetch" /\ temp_page' = temp_page + 1
    /\ movies' = <<>>
    /\ UNCHANGED <<env, existing_movies, latest_id, total_count, all_new_movies,
                   page, found_existing, new_movie_count, pb, io, hist>>

\* if new_movie_count == 0 { "Database is up to date" } else { "Found {} new
\* movies available" }; Ok(())
CheckReport ==
    /\ pc = "c_report"
    /\ out' = IF new_movie_count = 0
              THEN [NoOut EXCEPT !.msg = "up_to_date"]
              ELSE [NoOut EXCEPT !.msg = "found", !.n = new_movie_count]
    /\ pc' = "done"
    /\ UNCHANGED <<env, locals, cmd, hist>>

\* ------------------------------------------------------------- list_movies
\* The --limit option: None (<<>>) or Some(n) (<<n>>).
ListLimits == {<<>>} \cup {<<n>> : n \in 0..MaxFileLen}

\* After the load: if movies.is_empty() { "No movies in database"; return Ok(()) }
\* let display_count = limit.unwrap_or(movies.len()).min(movies.len()); the
\* first display_count movies are printed, then "... and {} more movies".
ListMovies ==
    /\ pc = "l_show"
    /\ \E lim \in ListLimits :
          out' = IF existing_movies = <<>>
                 THEN [NoOut EXCEPT !.msg = "no_movies"]
                 ELSE [NoOut EXCEPT !.msg = "listing",
                                    !.n = Min(IF lim = <<>> THEN Len(existing_movies)
                                              ELSE lim[1], Len(existing_movies)),
                                    !.total = Len(existing_movies)]
    /\ pc' = "done"
    /\ UNCHANGED <<env, locals, cmd, hist>>

\* ---------------------------------------------------------- calculate_size
\* Variant: the first torrent's size taken for the largest.
FirstSize(torrents) == torrents[1].size_bytes

\* movie.torrents.iter().max_by_key(|t| t.size_bytes), its size_bytes
\* (called for a movie that has a torrent).
LargestSize(torrents) == SetMax({torrents[j].size_bytes : j \in 1..Len(torrents)})

\* for movie in &movies { if let Some(largest_torrent) = ... { total_bytes +=
\* largest_torrent.size_bytes; movies_with_torrents += 1; } }
RECURSIVE SizeLoop(_, _)
SizeLoop(ms, acc) ==
    IF ms = <<>> THEN acc
    ELSE IF Head(ms).torrents = <<>> THEN SizeLoop(Tail(ms), acc)
    ELSE SizeLoop(Tail(ms),
                  [total_bytes |-> acc.total_bytes + LargestSize(Head(ms).torrents),
                   movies_with_torrents |-> acc.movies_with_torrents + 1])

\* After the load: if movies.is_empty() { "No movies in database"; return Ok(()) }
\* the loop, then the totals and, if movies_with_torrents > 0, the average
\* total_bytes / movies_with_torrents, else "N/A".
CalculateSize ==
    /\ pc = "z_sum"
    /\ out' = IF existing_movies = <<>>
              THEN [NoOut EXCEPT !.msg = "no_movies"]
              ELSE LET r == SizeLoop(existing_movies,
                                     [total_bytes |-> 0, movies_with_torrents |-> 0])
                   IN [msg |-> "size",
                       n |-> Len(existing_movies),
                       total |-> r.total_bytes,
                       with |-> r.movies_with_torrents,
                       avg |-> IF r.movies_with_torrents > 0
                               THEN <<r.total_bytes \div r.movies_with_torrents>>
                               ELSE <<>>]
    /\ pc' = "done"
    /\ UNCHANGED <<env, locals, cmd, hist>>

Report ==
    \/ CheckProbe
    \/ CheckFetch
    \/ CheckItem
    \/ CheckPageEnd
    \/ CheckReport
    \/ ListMovies
    \/ CalculateSize

\* ------------------------------------------------------------ environment
\* What the next invocation keeps of the one that ended: of a sync or a check
\* that finished while the remote did not change, its command and the count
\* its scan reported; nothing of any other.
NoPrev == [outcome |-> "none", changed |-> FALSE, cmd |-> "none", n |-> 0]

Remembered ==
    IF pc = "done" /\ ~changed /\ cmd \in {"fetch", "check"}
    THEN [outcome |-> "done", changed |-> FALSE, cmd |-> cmd,
          n |-> IF cmd = "check" THEN out.n ELSE 0]
    ELSE NoPrev

\* The program is invoked again after an invocation ended (main).
StartRun ==
    /\ pc \in {"done", "error"}
    /\ run < MaxRuns
    /\ pc' = "load"
    /\ existing_movies' = <<>>
    /\ latest_id' = 0
    /\ total_count' = 0
    /\ all_new_movies' = <<>>
    /\ page' = FirstPage
    /\ found_existing' = FALSE
    /\ new_movie_count' = 0
    /\ temp_page' = 1
    /\ movies' = <<>>
    /\ pb' = NoPb
    /\ run' = run + 1
    /\ preFile' = file
    /\ preState' = fileState
    /\ writes' = 0
    /\ failed' = FALSE
    /\ reqs' = <<>>
    /\ seen' = 0
    /\ lastKind' = "none"
    /\ changed' = FALSE
    /\ prev' = Remembered
    /\ \E c \in Commands : cmd' = c
    /\ out' = NoOut
    /\ UNCHANGED <<env, adds>>

\* The remote gains a movie: a new, higher id, listed first. Only fetch_page
\* reads the remote, so the moment of a gain between two requests makes no
\* difference: it is taken right before a request, or between two invocations.
RemoteAdd ==
    /\ adds < MaxAdds
    /\ \/ pc \in {"probe", "s2fetch", "s3fetch", "c_probe", "c_fetch"}
       \/ pc \in {"done", "error"} /\ run < MaxRuns
    /\ remote' = <<Max(MaxId, MaxIdOf([i \in 1..Len(remote) |-> [id |-> remote[i]]])) + 1>> \o remote
    /\ adds' = adds + 1
    /\ changed' = TRUE
    /\ UNCHANGED <<file, fileState, limit, pc, locals>>
    /\ UNCHANGED <<run, preFile, preState, writes, failed, reqs, seen, lastKind, prev>>
    /\ UNCHANGED io

Sync ==
    \/ LoadExisting
    \/ Probe
    \/ Step2Fetch
    \/ Step2Item
    \/ Step2PageEnd
    \/ Step2Finish
    \/ SetupProgress
    \/ Step3Fetch
    \/ Step3Item
    \/ Step3PageEnd
    \/ Save

Next == Sync \/ Report \/ StartRun \/ RemoteAdd

Spec == Init /\ [][Next]_vars

\* ------------------------------------------------- the boundary scenario
\* Three pages of ten, ids 100..91, 90..81, 80..71, and a store whose
\* highest id is 85.
C9Pages == [p \in 1..3 |-> [i \in 1..10 |-> 111 - 10 * p - i]]

C9Remote == C9Pages[1] \o C9Pages[2] \o C9Pages[3]

C9Stores ==
    {[i \in 1..Len(s) |-> MakeMovie(ApiMovie(s[i]))] :
        s \in {<<85>>, <<85, 84>>, <<84, 85>>, <<85, 71>>, <<60, 85>>}}

InitC9 ==
    /\ remote = C9Remote
    /\ limit = Len(C9Pages[1])
    /\ fileState = "ok"
    /\ file \in C9Stores
    /\ InitLocals
    /\ cmd = "fetch"
    /\ out = NoOut
    /\ InitHist

\* The remote does not change while the program runs.
NextStatic == Sync \/ Report \/ StartRun

SpecC9 == InitC9 /\ [][NextStatic]_vars

\* ------------------------------------------------------------- properties
IsDistinct(s) == \A i, j \in 1..Len(s) : i # j => s[i].id # s[j].id
IsSortedDesc(s) == \A i \in 1..(Len(s) - 1) : s[i].id >= s[i + 1].id
PagesOf(phase) ==
    LET sel == SelectSeq(reqs, LAMBDA q : q.phase = phase)
    IN [i \in 1..Len(sel) |-> sel[i].page]
Step2Over == pc \in {"s2done", "pbinit", "s3fetch", "s3items", "save", "done"}

\* C1 (as claimed): with latest_id > 0, a sync whose Step 2 scan counted zero
\* new items ends without any save, the store being what it was before the run.
C1_NoWriteWhenUpToDate ==
    (cmd = "fetch" /\ pc = "done" /\ latest_id > 0 /\ new_movie_count = 0)
        => (writes = 0 /\ file = preFile /\ fileState = preState)

\* C2: once a load or a fetch_page has failed, the run is in its error
\* outcome, the failed call is the last request made (none before it failed,
\* none follows it), nothing was saved and the store is as before the run.
C2_FailureAborts ==
    failed =>
        /\ pc = "error"
        /\ writes = 0
        /\ file = preFile
        /\ fileState = preState
        /\ \A i \in 1..Len(reqs) : reqs[i].ok <=> i < Len(reqs)
        /\ reqs = <<>> => fileState = "corrupt"

C2_Witness ==
    /\ pc = "error"
    /\ reqs # <<>>
    /\ reqs[Len(reqs)].phase = "scan3"
    /\ reqs[Len(reqs)].page = 2
    /\ all_new_movies # <<>>
    /\ file = preFile

\* C3: a finished sync that appended k movies in Step 3 (k = pb.pos) leaves a
\* store of pre-sync size + k, in which exactly k movies have an id above
\* every pre-sync id.
C3_SizeAndNewIds ==
    (cmd = "fetch" /\ pc = "done") =>
        LET top == MaxIdOf(preFile)
            new == SelectSeq(file, LAMBDA m : m.id > top)
            old == SelectSeq(file, LAMBDA m : m.id <= top)
        IN /\ Len(file) = Len(preFile) + pb.pos
           /\ Len(new) = pb.pos
           /\ Len(old) = Len(preFile)

C3_Witness ==
    /\ pc = "done"
    /\ pb.pos >= 2
    /\ Len(preFile) >= 1
    /\ changed

\* C4 (as claimed): the stored ids are pairwise distinct, the remote gaining
\* movies between page requests included.
C4_IdsDistinct == fileState = "ok" => IsDistinct(file)

\* C5 (as claimed): a page whose item list is present but empty ends the
\* scan, so no scan goes on to request a further page after one.
C5_EmptyPageEndsScan == ~(pc \in {"s2fetch", "s3fetch"} /\ lastKind = "empty")

\* C6: after a sync has written the store, the stored collection is sorted by
\* id descending.
C6_SortedAfterWrite == writes > 0 => IsSortedDesc(file)

C6_Witness ==
    /\ writes > 0
    /\ ~IsSortedDesc(preFile)
    /\ pb.pos >= 1
    /\ Len(file) >= 3

\* The second of two finished syncs in a row, the remote unchanged since the
\* first one started.
SecondRunUnchanged ==
    /\ pc = "done"
    /\ cmd = "fetch"
    /\ run >= 2
    /\ prev.cmd = "fetch"
    /\ prev.outcome = "done"
    /\ ~prev.changed
    /\ ~changed

\* C7 (as claimed): the second run performs the Step 2 scan, finds zero new
\* items, and the store is as the first run left it.
C7_SecondRunScansAndKeeps ==
    SecondRunUnchanged =>
        /\ PagesOf("scan2") # <<>>
        /\ new_movie_count = 0
        /\ file = preFile

\* C7 (amended): the store is as the first run left it; when the first run
\* left a store that is not empty the second run performs the Step 2 scan and
\* finds zero new items, and when it left an empty store Step 2 is skipped.
C7_SecondRunKeeps ==
    SecondRunUnchanged =>
        /\ file = preFile
        /\ fileState = preState
        /\ pb.pos = 0
        /\ latest_id > 0 => PagesOf("scan2") # <<>> /\ new_movie_count = 0
        /\ latest_id = 0 => PagesOf("scan2") = <<>> /\ file = <<>>

C7_Witness ==
    /\ SecondRunUnchanged
    /\ latest_id > 0
    /\ Len(file) >= 3
    /\ PagesOf("scan2") # <<>>

\* C8: after a finished sync that added at least one movie, the highest
\* stored id is the highest id seen in any page response of that sync (the
\* remote listing newest first and only gaining movies).
C8_MaxIsHighestSeen ==
    (cmd = "fetch" /\ pc = "done" /\ pb.pos >= 1) => MaxIdOf(file) = seen

C8_Witness ==
    /\ pc = "done"
    /\ pb.pos >= 1
    /\ changed
    /\ Len(preFile) >= 1
    /\ Len(PagesOf("scan3")) >= 2

\* C9 (as claimed): in the scenario, once Step 2 of the first run is over its
\* count is 5 and it requested pages 1 and 2 only, never page 3.
C9_BoundaryScanFive ==
    run = 1 =>
        /\ \A i \in 1..Len(PagesOf("scan2")) : PagesOf("scan2")[i] < 3
        /\ (Step2Over /\ ~failed) => new_movie_count = 5 /\ PagesOf("scan2") = <<1, 2>>

\* C9 (amended): in the scenario, once Step 2 of the first run is over its
\* count is 15 (the ten ids 100..91 of page 1 and the five ids 90..86 of
\* page 2 are all above 85) and it requested pages 1 and 2 only, never page 3.
C9_BoundaryScan ==
    run = 1 =>
        /\ \A i \in 1..Len(PagesOf("scan2")) : PagesOf("scan2")[i] < 3
        /\ (Step2Over /\ ~failed) => new_movie_count = 15 /\ PagesOf("scan2") = <<1, 2>>

C9_Witness ==
    /\ run = 1
    /\ pc = "s2done"
    /\ latest_id = 85
    /\ new_movie_count = 15
    /\ found_existing
    /\ PagesOf("scan2") = <<1, 2>>

\* The magnet URI of hash and title, token by token.
IsMagnetOf(u, hash, title) ==
    /\ Len(u) = Len(title) + 4
    /\ u[1] = "magnet:?xt=urn:btih:"
    /\ u[2] = hash
    /\ u[3] = "&dn="
    /\ \A i \in 1..Len(title) : u[3 + i] = (IF title[i] = " " THEN "+" ELSE title[i])
    /\ u[Len(u)] = TRACKERS

\* C10: a sync that starts with no file and finishes while the remote did not
\* change stores exactly the movies the remote lists, in the remote's
\* (id-descending) order, every torrent with the magnet URI of its hash and
\* its movie's title.
C10_FirstSyncMirrorsRemote ==
    (cmd = "fetch" /\ pc = "done" /\ preState = "absent" /\ ~changed) =>
        /\ Ids(file) = remote
        /\ IsSortedDesc(file)
        /\ \A i \in 1..Len(file) :
              /\ file[i].title = ApiMovie(file[i].id).title
              /\ Len(file[i].torrents) = Len(ApiTorrents(file[i].id))
              /\ \A j \in 1..Len(file[i].torrents) :
                    /\ file[i].torrents[j].hash = ApiTorrents(file[i].id)[j].hash
                    /\ IsMagnetOf(file[i].torrents[j].magnet_url,
                                  file[i].torrents[j].hash, file[i].title)

C10_Witness ==
    /\ pc = "done"
    /\ preState = "absent"
    /\ ~changed
    /\ Len(remote) = 3
    /\ Ids(file) = <<3, 2, 1>>
    /\ Len(PagesOf("scan3")) >= 2

\* ------------------------------------------------- the reporting commands
Reports == {"check", "list", "size"}
Ended == pc \in {"done", "error"}
EmptyStoreAtStart == preState = "absent" \/ (preState = "ok" /\ preFile = <<>>)

\* C11: in every state of a check, list or size invocation, ended or not,
\* failed or not, nothing has been saved and the store is what it was when
\* the invocation started.
C11_ReportsReadOnly ==
    cmd \in Reports => (writes = 0 /\ file = preFile /\ fileState = preState)

C11_Witness ==
    /\ cmd = "check"
    /\ pc = "done"
    /\ out.msg = "found"
    /\ changed
    /\ Len(file) >= 2

\* C12 (as claimed): a check, list or size invocation that started from an
\* empty store (no file, or an empty collection) ends successfully with its
\* informational message, never in error.
C12_EmptyStoreNeverFails ==
    (cmd \in Reports /\ EmptyStoreAtStart /\ Ended) =>
        (pc = "done" /\ out.msg \in {"no_movies", "all_new"})

\* C12 (amended): from an empty store, list and size always end successfully
\* with "no movies in database"; check first requests page 1 and ends
\* successfully with "all N movies are new" when that request succeeds, and
\* in error when it fails, having made no other request.
C12_EmptyStoreReports ==
    (cmd \in Reports /\ EmptyStoreAtStart /\ Ended) =>
        /\ cmd \in {"list", "size"} => (pc = "done" /\ out.msg = "no_movies" /\ reqs = <<>>)
        /\ cmd = "check" =>
              /\ Len(reqs) = 1 /\ reqs[1].phase = "cprobe" /\ reqs[1].page = 1
              /\ reqs[1].ok => (pc = "done" /\ out.msg = "all_new" /\ out.n = total_count)
              /\ ~reqs[1].ok => pc = "error"

C12_Witness ==
    /\ cmd = "check"
    /\ preState = "absent"
    /\ pc = "done"
    /\ out.msg = "all_new"
    /\ out.n = 3

\* ------------------------------------------------------- the size report
\* The positions of the movies that have at least one torrent.
Contributing(ms) == {i \in 1..Len(ms) : Len(ms[i].torrents) >= 1}

\* The maximum torrent byte size of a movie that has a torrent.
MaxBytes(m) ==
    CHOOSE b \in {m.torrents[j].size_bytes : j \in 1..Len(m.torrents)} :
        \A j \in 1..Len(m.torrents) : m.torrents[j].size_bytes <= b

RECURSIVE SumMaxBytes(_, _)
SumMaxBytes(ms, S) ==
    IF S = {} THEN 0
    ELSE LET i == CHOOSE x \in S : TRUE
         IN MaxBytes(ms[i]) + SumMaxBytes(ms, S \ {i})

\* C13: a finished size report over a non-empty store gives as combined size
\* the sum, over the movies with at least one torrent, of the movie's maximum
\* torrent byte size; as contributing count the number of those movies; and
\* as average the quotient of the two when the count is positive, N/A when
\* it is zero.
C13_SizeReport ==
    (cmd = "size" /\ pc = "done" /\ file /= <<>>) =>
        /\ out.msg = "size"
        /\ out.n = Len(file)
        /\ out.with = Cardinality(Contributing(file))
        /\ out.total = SumMaxBytes(file, Contributing(file))
        /\ out.with = 0 => out.avg = <<>>
        /\ out.with > 0 =>
              /\ Len(out.avg) = 1
              /\ out.avg[1] * out.with <= out.total
              /\ out.total < (out.avg[1] + 1) * out.with

C13_Witness ==
    /\ cmd = "size"
    /\ pc = "done"
    /\ out.msg = "size"
    /\ \E i \in 1..Len(file) : file[i].torrents = <<>>
    /\ \E i \in 1..Len(file) : Len(file[i].torrents) = 2
    /\ out.with = 1
    /\ out.total = 4
    /\ out.avg = <<4>>

\* A size report whose every movie has no torrent: the average is N/A.
C13_NotAvailable ==
    /\ cmd = "size"
    /\ pc = "done"
    /\ out.msg = "size"
    /\ out.with = 0
    /\ out.avg = <<>>

\* ---------------------------------------------------------- the scan order
\* The answers to the successful requests of a phase, in request order.
AnswersOf(phase) == SelectSeq(reqs, LAMBDA q : q.phase = phase /\ q.ok)

\* The ids a phase was handed, in the order returned.
RECURSIVE Flatten(_)
Flatten(answers) ==
    IF answers = <<>> THEN <<>> ELSE Head(answers).ids \o Flatten(Tail(answers))

GotIds(phase) == Flatten(AnswersOf(phase))

\* The ids of s that precede its first id <= latest (all of s if there is none).
RECURSIVE BeforeBoundary(_, _)
BeforeBoundary(s, latest) ==
    IF s = <<>> \/ Head(s) <= latest THEN <<>>
    ELSE <<Head(s)>> \o BeforeBoundary(Tail(s), latest)

IsPrefix(a, b) == Len(a) <= Len(b) /\ a = SubSeq(b, 1, Len(a))

\* Pages 1, 2, 3, ... in that order, each once; an answer that holds an id
\* <= latest_id is the last request of the phase.
ScanInOrder(phase) ==
    /\ PagesOf(phase) = [i \in 1..Len(PagesOf(phase)) |-> i]
    /\ \A k \in 1..Len(reqs) :
          (reqs[k].phase = phase /\ \E j \in 1..Len(reqs[k].ids) : reqs[k].ids[j] <= latest_id)
              => \A k2 \in (k + 1)..Len(reqs) : reqs[k2].phase /= phase

\* C14: in a sync, Step 2 and Step 3 each request pages 1, 2, 3, ... in order,
\* each once; they take the items in the order returned and only those before
\* the first id <= latest_id, after which no page is requested: the Step 2
\* counter never passes, and once Step 2 is over equals, the number of items
\* before the first boundary item, and the Step 3 accumulator is a prefix of,
\* and once Step 3 is over equals, the items before the first boundary item.
C14_ScanStopsAtBoundary ==
    (cmd = "fetch" /\ pc \notin {"load", "probe", "done", "error"}) =>
        /\ ScanInOrder("scan2")
        /\ ScanInOrder("scan3")
        /\ new_movie_count <= Len(BeforeBoundary(GotIds("scan2"), latest_id))
        /\ (Step2Over /\ latest_id > 0) =>
              new_movie_count = Len(BeforeBoundary(GotIds("scan2"), latest_id))
        /\ IsPrefix(Ids(all_new_movies), BeforeBoundary(GotIds("scan3"), latest_id))
        /\ pc = "save" =>
              Ids(all_new_movies) = BeforeBoundary(GotIds("scan3"), latest_id)

\* Step 3 is over after two pages, the second of which holds the boundary item
\* followed by a further item that was not taken.
C14_Witness ==
    /\ cmd = "fetch"
    /\ pc = "save"
    /\ latest_id > 0
    /\ new_movie_count >= 2
    /\ Len(PagesOf("scan2")) = 2
    /\ Len(PagesOf("scan3")) = 2
    /\ Len(GotIds("scan3")) > Len(all_new_movies) + 1
    /\ Len(all_new_movies) >= 2

\* ------------------------------------------------- what a sync leaves alone
\* How often record m occurs in s.
Occurrences(s, m) == Cardinality({i \in 1..Len(s) : s[i] = m})

\* The collection the invocation loaded.
StoredBefore == IF preState = "ok" THEN preFile ELSE <<>>

\* C15: after a successful sync every movie stored before it is in the store
\* with the same id, title, year, code and torrent list, as often as before;
\* every other record of the store has an id above all the ids stored before,
\* and there are as many of them as movies were fetched.
C15_SyncKeepsStored ==
    (cmd = "fetch" /\ pc = "done") =>
        /\ \A i \in 1..Len(StoredBefore) :
              Occurrences(file, StoredBefore[i]) = Occurrences(StoredBefore, StoredBefore[i])
        /\ \A i \in 1..Len(file) :
              \/ \E j \in 1..Len(StoredBefore) : file[i] = StoredBefore[j]
              \/ \A j \in 1..Len(StoredBefore) : file[i].id > StoredBefore[j].id
        /\ Len(file) = Len(StoredBefore) + pb.pos

\* A sync that added movies to a store one of whose movies the remote, in an
\* answer of this sync, reports with another title.
C15_Witness ==
    /\ cmd = "fetch"
    /\ pc = "done"
    /\ Len(file) > Len(preFile)
    /\ \E i \in 1..Len(preFile) :
          /\ preFile[i] /= MakeMovie(ApiMovie(preFile[i].id))
          /\ \E k \in 1..Len(reqs) : \E j \in 1..Len(reqs[k].ids) :
                reqs[k].ids[j] = preFile[i].id
          /\ \E j \in 1..Len(file) : file[j] = preFile[i]

\* ---------------------------------------------------------- materializing
InStep3 == cmd = "fetch" /\ pc \in {"s3fetch", "s3items", "save"}

\* Torrent t is the materialization of descriptor d of the movie titled title.
IsTorrentOf(t, d, title) ==
    /\ t.quality = <<d.quality, "-", d.torrent_type>>
    /\ t.hash = d.hash
    /\ t.size_bytes = d.size_bytes
    /\ t.size = d.size
    /\ t.magnet_url = create_magnet_url(d.hash, title)
    /\ IsMagnetOf(t.magnet_url, d.hash, title)
    /\ \A i \in 1..Len(t.magnet_url) : t.magnet_url[i] /= " "

\* C16: every movie in the Step 3 accumulator was handed to Step 3 by the
\* remote and has the id, title, year and code of its remote item and one
\* torrent per descriptor of the item, in the same order, with label
\* quality-type, the hash, byte size and human size of the descriptor, and the
\* magnet URI that create_magnet_url gives for the hash and the movie's title,
\* which has a '+' wherever the title has a space.
C16_Materialized ==
    InStep3 =>
        \A i \in 1..Len(all_new_movies) :
            LET m == all_new_movies[i]
                a == ApiMovie(m.id)
            IN /\ \E k \in 1..Len(GotIds("scan3")) : GotIds("scan3")[k] = m.id
               /\ m.title = a.title
               /\ m.year = a.year
               /\ m.imdb_code = a.imdb_code
               /\ Len(m.torrents) = Len(a.torrents)
               /\ \A j \in 1..Len(m.torrents) : IsTorrentOf(m.torrents[j], a.torrents[j], a.title)

\* The accumulator holds a movie with two torrents whose labels differ.
C16_Witness ==
    /\ InStep3
    /\ \E i \in 1..Len(all_new_movies) :
          /\ Len(all_new_movies[i].torrents) = 2
          /\ all_new_movies[i].torrents[1].quality = <<"720p", "-", "web">>
          /\ all_new_movies[i].torrents[2].quality = <<"1080p", "-", "bluray">>
          /\ \E k \in 1..Len(all_new_movies[i].torrents[2].magnet_url) :
                all_new_movies[i].torrents[2].magnet_url[k] = "+"

\* ------------------------------------------------------ check, then sync
\* This sync follows a check that ended successfully, and the remote has not
\* changed since that check began; the store has a movie.
SyncAfterCheck ==
    /\ cmd = "fetch"
    /\ prev.cmd = "check"
    /\ prev.outcome = "done"
    /\ ~prev.changed
    /\ ~changed
    /\ latest_id > 0

\* C17: when a sync follows a check of the same store and the same unchanged
\* remote, and the store has a movie, the count the check reported is the
\* count Step 2 of the sync computes, and is the number of movies the sync,
\* once it has succeeded, has added to the store.
C17_CheckAgreesWithSync ==
    SyncAfterCheck =>
        /\ Step2Over => new_movie_count = prev.n
        /\ pc = "done" =>
              /\ pb.pos = prev.n
              /\ Len(file) = Len(preFile) + prev.n

C17_Witness ==
    /\ SyncAfterCheck
    /\ pc = "done"
    /\ prev.n = 2
    /\ new_movie_count = 2
    /\ Len(file) = Len(preFile) + 2

\* ------------------------------------------------------------- progress
\* What holds of the progress counter in every state of Step 3, apart from
\* its relation to the target.
ProgressCounts ==
    /\ pb.pos = Len(all_new_movies)
    /\ pb.len = (IF latest_id > 0 THEN new_movie_count ELSE total_count)
    /\ Len(PagesOf("scan3")) = 0 => pb.pos = 0

\* Between two states of Step 3 the counter and the accumulator stay as they
\* are or the accumulator gains one movie and the counter one.
ProgressStep ==
    (InStep3 /\ InStep3') =>
        \/ pb'.pos = pb.pos /\ all_new_movies' = all_new_movies
        \/ /\ pb'.pos = pb.pos + 1
           /\ Len(all_new_movies') = Len(all_new_movies) + 1
           /\ SubSeq(all_new_movies', 1, Len(all_new_movies)) = all_new_movies

\* C18 (as claimed): during Step 3 the counter is the number of movies
\* appended, its target is the Step 2 count (the probed total when
\* latest_id = 0), and the counter never exceeds the target.
C18_ProgressNeverExceeds ==
    InStep3 => (ProgressCounts /\ pb.pos <= pb.len)

\* C18 (amended): during Step 3 the counter starts at 0, is the number of
\* movies appended, gains one with each and never decreases; its target is the
\* Step 2 count when latest_id > 0 and the probed total otherwise; while the
\* remote has not changed during the sync the counter does not exceed the
\* target, and when Step 3 ends with the remote unchanged and latest_id > 0
\* it equals the target.
C18_Progress ==
    /\ [](InStep3 =>
            /\ ProgressCounts
            /\ ~changed => pb.pos <= pb.len
            /\ (pc = "save" /\ ~changed /\ latest_id > 0) => pb.pos = pb.len)
    /\ [][ProgressStep]_vars

\* Step 3 has ended with the remote unchanged and the counter at its target 2.
C18_Witness ==
    /\ cmd = "fetch"
    /\ pc = "save"
    /\ ~changed
    /\ latest_id > 0
    /\ pb.len = 2
    /\ pb.pos = 2

\* The remote gained a movie during the sync and the counter passed its target.
C18_Exceeds ==
    /\ InStep3
    /\ changed
    /\ pb.pos > pb.len

====
